---- MODULE Spec2Model ----
(***************************************************************************)
(* A model of satellite_packetizer.c: the AX.25 -> FX.25 -> KISS pipeline. *)
(*                                                                         *)
(* Bytes are naturals 0..255, buffers are sequences of bytes (1-indexed:   *)
(* C's buffer[i] is buffer[i+1] here), C strings are sequences of ASCII    *)
(* codes without the terminating NUL.                                      *)
(*                                                                         *)
(* Spec      one run of main(), from the argument check to the return.     *)
(* UnitSpec  single calls of the five functions of the file on inputs      *)
(*           drawn from bounded sets (main() only ever passes them chunks  *)
(*           of at most MAX_PAYLOAD bytes and the two parsed addresses).   *)
(***************************************************************************)
EXTENDS Integers, Sequences, FiniteSets, TLC

\* --------------------------------------------------------------------------
\* Program constants (satellite_packetizer.c, lines 46-62)
\* --------------------------------------------------------------------------
AX25_CONTROL == 3

PID_NOL3 == 240

FX25_K == 223

FX25_N == 255

CORR_TAG == <<204, 143, 138, 228, 133, 226, 152, 1>>

KISS_FEND == 192

KISS_FESC == 219

KISS_TFEND == 220

KISS_TFESC == 221

KISS_CMD_DATA == 0

MAX_PAYLOAD == 150

\* --------------------------------------------------------------------------
\* Bounds of the model
\* --------------------------------------------------------------------------
\* input files are 0..MaxTail bytes longer than 0, 1 and 2 full chunks less one
MaxTail == 2

\* unit calls pass lengths up to MaxOver beyond each function's ceiling
MaxOver == 2

\* unit calls of write_kiss_frame pass every frame of at most MaxKissLen bytes
MaxKissLen == 4

\* --------------------------------------------------------------------------
\* C integer arithmetic
\* --------------------------------------------------------------------------
RECURSIVE BitOp(_, _, _)
\* bit by bit: op is "xor", "or" or "and"
BitOp(op, a, b) ==
    IF a = 0 /\ b = 0 THEN 0
    ELSE (CASE op = "xor" -> (a + b) % 2
            [] op = "or"  -> IF a % 2 = 1 \/ b % 2 = 1 THEN 1 ELSE 0
            [] op = "and" -> IF a % 2 = 1 /\ b % 2 = 1 THEN 1 ELSE 0)
         + 2 * BitOp(op, a \div 2, b \div 2)

\* the three operations on 4-bit digits, tabulated once
NibbleTable ==
    [op \in {"xor", "or", "and"} |-> [a \in 0..15 |-> [b \in 0..15 |-> BitOp(op, a, b)]]]

RECURSIVE Bitwise(_, _, _)
\* the operation on non-negative ints, one hexadecimal digit at a time
Bitwise(op, a, b) ==
    IF a = 0 /\ b = 0 THEN 0
    ELSE NibbleTable[op][a % 16][b % 16] + 16 * Bitwise(op, a \div 16, b \div 16)

\* a ^ b, a | b, a & b on non-negative ints
Xor(a, b) == Bitwise("xor", a, b)

Or(a, b) == Bitwise("or", a, b)

And(a, b) == Bitwise("and", a, b)

\* conversion of an int to uint8_t / uint16_t on assignment
U8(x) == x % 256

U16(x) == x % 65536

Min(a, b) == IF a < b THEN a ELSE b

\* the first n bytes of a buffer (memcpy's source range)
Take(buf, n) == SubSeq(buf, 1, n)

\* a buffer after bytes were written to its start: only the bytes written so
\* far are modelled, an uninitialised buffer is <<>>
Overwrite(buf, bytes) == bytes \o SubSeq(buf, Len(bytes) + 1, Len(buf))

\* a buffer of n bytes that repeats seed
Periodic(seed, n) == [i \in 1..n |-> seed[((i - 1) % Len(seed)) + 1]]

\* --------------------------------------------------------------------------
\* encode_address (lines 94-102)
\* --------------------------------------------------------------------------
SPACE == 32

\* out[6] = (ssid << 1) | 0b01100000 | (last_addr ? 1 : 0), stored in a uint8_t
encode_ssid_byte(ssid, last_addr) ==
    U8(Or(Or(ssid * 2, 96), IF last_addr # 0 THEN 1 ELSE 0))

encode_address(call, ssid, last_addr) ==
    LET call_len == Len(call)
    IN  [i \in 1..7 |->
            IF i <= 6
            THEN IF i - 1 < call_len THEN U8(call[i] * 2) ELSE U8(SPACE * 2)
            ELSE encode_ssid_byte(ssid, last_addr)]

\* --------------------------------------------------------------------------
\* calculate_crc (lines 107-120)
\* --------------------------------------------------------------------------
CRC_POLY == 4129

RECURSIVE crc_shift(_, _)
\* the inner loop: for (j = 0; j < 8; j++), crc a uint16_t
crc_shift(crc, j) ==
    IF j >= 8 THEN crc
    ELSE IF And(crc \div 4096, 8) # 0
         THEN crc_shift(U16(Xor(crc * 2, CRC_POLY)), j + 1)
         ELSE crc_shift(U16(crc * 2), j + 1)

\* one pass of the outer loop's body: crc ^= (uint16_t)data[i] << 8; inner loop
crc_byte(crc, byte) == crc_shift(U16(Xor(crc, byte * 256)), 0)

\* the outer loop, for (i = 0; i < length; i++), from crc = 0xFFFF.
\* loop[lo, hi, crc] is crc after the passes for
\* i = lo..hi-1: those for the first half of the range, then those for the
\* second.
crc_loop(data, length) ==
    LET loop[lo \in 0..length, hi \in 0..length, crc \in 0..65535] ==
            IF lo >= hi THEN crc
            ELSE IF hi - lo = 1 THEN crc_byte(crc, data[lo + 1])
            ELSE loop[lo + ((hi - lo) \div 2), hi,
                      loop[lo, lo + ((hi - lo) \div 2), crc]]
    IN  loop[0, length, 65535]

\* mutant: returns the register without the final XOR
calculate_crc_no_final_xor(data, length) == crc_loop(data, length)

calculate_crc(data, length) == U16(Xor(crc_loop(data, length), 65535))

\* --------------------------------------------------------------------------
\* fx25_init, fx25_cleanup (lines 131-154)
\*
\* heap counts, per resource, how often it was acquired and released.
\* An encoder pointer is [null, rs_handle]: rs_handle is TRUE for a non-NULL
\* handle.
\* --------------------------------------------------------------------------
Resources == {"encoder", "rs_handle", "input_file", "output_file"}

NoHeap == [acq |-> [r \in Resources |-> 0], rel |-> [r \in Resources |-> 0]]

Acquire(heap, r) == [heap EXCEPT !.acq[r] = @ + 1]

Release(heap, r) == [heap EXCEPT !.rel[r] = @ + 1]

NULL_ENCODER == [null |-> TRUE, rs_handle |-> FALSE]

\* malloc_ok, rs_ok: whether malloc and init_rs_char succeed
fx25_init(heap, malloc_ok, rs_ok) ==
    IF ~malloc_ok THEN [encoder |-> NULL_ENCODER, heap |-> heap]
    ELSE IF ~rs_ok
         THEN [encoder |-> NULL_ENCODER,
               heap |-> Release(Acquire(heap, "encoder"), "encoder")]
         ELSE [encoder |-> [null |-> FALSE, rs_handle |-> TRUE],
               heap |-> Acquire(Acquire(heap, "encoder"), "rs_handle")]

\* mutant: frees the encoder but not its Reed-Solomon handle
fx25_cleanup_leaks_handle(heap, encoder) ==
    IF ~encoder.null THEN Release(heap, "encoder") ELSE heap

fx25_cleanup(heap, encoder) ==
    IF ~encoder.null
    THEN Release(IF encoder.rs_handle THEN Release(heap, "rs_handle") ELSE heap,
                 "encoder")
    ELSE heap

\* --------------------------------------------------------------------------
\* fx25_encode_frame (lines 163-184)
\* --------------------------------------------------------------------------
\* libfec's encode_rs_char(handle, data, parity) writes the 32 parity bytes
\* behind the FX25_K data bytes; libfec is not part of the program, so the
\* bytes it returns are an input of the model.
encode_rs_char(rs_handle, rs_block, parity) ==
    [i \in 1..FX25_N |-> IF i <= FX25_K THEN rs_block[i] ELSE parity[i - FX25_K]]

\* mutant: no memset, the block behind the frame keeps what the stack held
fx25_encode_frame_no_memset(encoder, ax25_frame, ax25_len, fx25_frame_out, parity) ==
    IF ax25_len > FX25_K
    THEN [fx25_frame_out |-> fx25_frame_out, ret |-> 0]
    ELSE LET rs_block == [i \in 1..FX25_N |->
                            IF i <= ax25_len THEN ax25_frame[i] ELSE 255]
             codeword == encode_rs_char(encoder.rs_handle, rs_block, parity)
         IN  [fx25_frame_out |-> Overwrite(fx25_frame_out, CORR_TAG \o codeword),
              ret |-> 8 + FX25_N]

\* returns the output buffer and the return value; on error the buffer is
\* left as it was
fx25_encode_frame(encoder, ax25_frame, ax25_len, fx25_frame_out, parity) ==
    IF ax25_len > FX25_K
    THEN [fx25_frame_out |-> fx25_frame_out, ret |-> 0]
    ELSE LET zeroed   == [i \in 1..FX25_N |-> 0]
             rs_block == [i \in 1..FX25_N |->
                            IF i <= ax25_len THEN ax25_frame[i] ELSE zeroed[i]]
             codeword == encode_rs_char(encoder.rs_handle, rs_block, parity)
         IN  [fx25_frame_out |-> Overwrite(fx25_frame_out, CORR_TAG \o codeword),
              ret |-> 8 + FX25_N]

\* --------------------------------------------------------------------------
\* ax25_generate_ui_frame (lines 195-218)
\* --------------------------------------------------------------------------
\* mutant: the FCS high byte first
ax25_store_fcs_high_first(frame_buffer, written, pos, fcs) ==
    [frame_buffer |->
        Overwrite(frame_buffer, written \o <<And(fcs \div 256, 255), And(fcs, 255)>>),
     ret |-> pos + 2]

\* step 4, second half: the two FCS bytes behind the pos bytes written, low
\* byte first; returns the frame buffer after the call and the return value
ax25_store_fcs(frame_buffer, written, pos, fcs) ==
    [frame_buffer |->
        Overwrite(frame_buffer, written \o <<And(fcs, 255), And(fcs \div 256, 255)>>),
     ret |-> pos + 2]

\* step 4, first half: the FCS over frame_buffer[0..pos-1]
ax25_append_fcs(frame_buffer, written, pos) ==
    ax25_store_fcs(frame_buffer, written, pos, calculate_crc(written, pos))

\* steps 1-3: addresses, control and PID, payload
ax25_generate_ui_frame(frame_buffer, dest, src, payload, payload_len) ==
    ax25_append_fcs(frame_buffer,
                    encode_address(dest.call, dest.ssid, 0)
                        \o encode_address(src.call, src.ssid, 1)
                        \o <<AX25_CONTROL, PID_NOL3>>
                        \o Take(payload, payload_len),
                    7 + 7 + 1 + 1 + payload_len)

\* --------------------------------------------------------------------------
\* write_kiss_frame (lines 231-249)
\* --------------------------------------------------------------------------
\* mutant: FESC escaped with the transposed FEND
kiss_byte_one_transposed(byte) ==
    IF byte = KISS_FEND THEN <<KISS_FESC, KISS_TFEND>>
    ELSE IF byte = KISS_FESC THEN <<KISS_FESC, KISS_TFEND>>
    ELSE <<byte>>

\* mutant: FEND not escaped
kiss_byte_fend_unescaped(byte) ==
    IF byte = KISS_FESC THEN <<KISS_FESC, KISS_TFESC>> ELSE <<byte>>

\* what the loop's body writes for one byte of the frame
kiss_byte(byte) ==
    IF byte = KISS_FEND THEN <<KISS_FESC, KISS_TFEND>>
    ELSE IF byte = KISS_FESC THEN <<KISS_FESC, KISS_TFESC>>
    ELSE <<byte>>

RECURSIVE kiss_body(_, _, _)
\* the bytes the loop over frame[i..length-1] writes, those for the first
\* half of the range before those for the second
kiss_body(frame, i, length) ==
    IF i >= length THEN <<>>
    ELSE IF length - i = 1 THEN kiss_byte(frame[i + 1])
    ELSE kiss_body(frame, i, i + ((length - i) \div 2))
         \o kiss_body(frame, i + ((length - i) \div 2), length)

\* the stream after the call
write_kiss_frame(stream, frame, length) ==
    stream \o <<KISS_FEND, KISS_CMD_DATA>> \o kiss_body(frame, 0, length) \o <<KISS_FEND>>

\* --------------------------------------------------------------------------
\* stdio as main() uses it
\* --------------------------------------------------------------------------
\* fread(buf, 1, count, f) on a file holding data, read up to pos: the bytes
\* it stores, as many as are left up to count
\* mutant: one byte less than asked for
fread_one_short(data, pos, count) ==
    SubSeq(data, pos + 1, pos + Min(count - 1, Len(data) - pos))

fread(data, pos, count) == SubSeq(data, pos + 1, pos + Min(count, Len(data) - pos))

\* fclose(f)
fclose(heap, f) == Release(heap, f)

\* --------------------------------------------------------------------------
\* State
\* --------------------------------------------------------------------------
VARIABLES
    pc,              \* position in main(), "unit" in a unit call
    src_addr,        \* ax25_address_t: [call, ssid], as sscanf left them
    dest_addr,
    input_data,      \* the bytes of the input file
    input_pos,       \* how many of them were read
    encoder,         \* fx25_encoder_t*
    heap,            \* acquisitions and releases so far
    payload_buffer,
    bytes_read,
    ax25_buffer,
    ax25_len,
    fx25_buffer,
    fx25_len,
    output_data,     \* the bytes written to the output file
    packet_count,
    status,          \* main's return value, -1 before it returns
    reads,           \* history: the value each fread returned
    emit_log,        \* history: per write_kiss_frame call, the chunk and the bytes written
    u_fn,            \* unit call: the function called, "none" before the call
    u_in,            \* unit call: its arguments
    u_ret,           \* unit call: its return value
    u_out            \* unit call: the buffer or stream it wrote

main_vars ==
    <<pc, src_addr, dest_addr, input_data, input_pos, encoder, heap, payload_buffer,
      bytes_read, ax25_buffer, ax25_len, fx25_buffer, fx25_len, output_data,
      packet_count, status, reads, emit_log>>

unit_vars == <<u_fn, u_in, u_ret, u_out>>

vars == <<main_vars, unit_vars>>

\* --------------------------------------------------------------------------
\* Inputs
\* --------------------------------------------------------------------------
\* "N0CALL", "CQ", "SRC", "DEST", "ABCDEFG" and "" as ASCII codes
N0CALL == <<78, 48, 67, 65, 76, 76>>

CQ == <<67, 81>>

SRC == <<83, 82, 67>>

DEST == <<68, 69, 83, 84>>

ABCDEFG == <<65, 66, 67, 68, 69, 70, 71>>

\* (source, destination) as the command line gives them
StationPairs ==
    { <<[call |-> N0CALL, ssid |-> 1], [call |-> CQ, ssid |-> 0]>>,
      <<[call |-> SRC, ssid |-> 1], [call |-> DEST, ssid |-> 0]>> }

\* file contents repeat one of these; they hold both bytes KISS escapes
DataSeeds == { <<KISS_FEND, KISS_FESC, 65>>, <<0>> }

InputLens ==
    UNION { {k * MAX_PAYLOAD - (IF k = 0 THEN 0 ELSE 1) + t : t \in 0..MaxTail} : k \in 0..2 }

\* the parity blocks encode_rs_char may return
RsParities == { Periodic(<<KISS_FEND, KISS_FESC>>, FX25_N - FX25_K),
                Periodic(<<17>>, FX25_N - FX25_K) }

NoUnit ==
    /\ u_fn = "none"
    /\ u_in = [data |-> <<>>, n |-> 0, aux |-> <<>>]
    /\ u_ret = 0
    /\ u_out = <<>>

NoRun ==
    /\ src_addr = [call |-> <<>>, ssid |-> 0]
    /\ dest_addr = [call |-> <<>>, ssid |-> 0]
    /\ input_data = <<>>
    /\ input_pos = 0
    /\ encoder = NULL_ENCODER
    /\ heap = NoHeap
    /\ payload_buffer = <<>>
    /\ bytes_read = 0
    /\ ax25_buffer = <<>>
    /\ ax25_len = 0
    /\ fx25_buffer = <<>>
    /\ fx25_len = 0
    /\ output_data = <<>>
    /\ packet_count = 0
    /\ status = -1
    /\ reads = <<>>
    /\ emit_log = <<>>

\* --------------------------------------------------------------------------
\* main (lines 256-341)
\* --------------------------------------------------------------------------
Init ==
    /\ pc = "args"
    /\ \E sp \in StationPairs : src_addr = sp[1] /\ dest_addr = sp[2]
    /\ \E seed \in DataSeeds, n \in InputLens : input_data = Periodic(seed, n)
    /\ input_pos = 0
    /\ encoder = NULL_ENCODER
    /\ heap = NoHeap
    /\ payload_buffer = <<>>
    /\ bytes_read = 0
    /\ ax25_buffer = <<>>
    /\ ax25_len = 0
    /\ fx25_buffer = <<>>
    /\ fx25_len = 0
    /\ output_data = <<>>
    /\ packet_count = 0
    /\ status = -1
    /\ reads = <<>>
    /\ emit_log = <<>>
    /\ NoUnit

Return(code) == pc' = "exit" /\ status' = code

\* lines 258-261: fewer than four arguments is a usage error
ParseArgs ==
    /\ pc = "args"
    /\ \E argc \in {4, 5} :
          IF argc < 5 THEN Return(1) ELSE pc' = "init" /\ status' = status
    /\ UNCHANGED <<src_addr, dest_addr, input_data, input_pos, encoder, heap,
                   payload_buffer, bytes_read, ax25_buffer, ax25_len, fx25_buffer,
                   fx25_len, output_data, packet_count, reads, emit_log, unit_vars>>

\* lines 278-282
InitEncoder ==
    /\ pc = "init"
    /\ \E malloc_ok \in BOOLEAN, rs_ok \in BOOLEAN :
          \E r \in {fx25_init(heap, malloc_ok, rs_ok)} :
              /\ encoder' = r.encoder
              /\ heap' = r.heap
              /\ IF r.encoder.null THEN Return(1)
                 ELSE pc' = "open_input" /\ status' = status
    /\ UNCHANGED <<src_addr, dest_addr, input_data, input_pos, payload_buffer,
                   bytes_read, ax25_buffer, ax25_len, fx25_buffer, fx25_len,
                   output_data, packet_count, reads, emit_log, unit_vars>>

\* lines 284-289
OpenInput ==
    /\ pc = "open_input"
    /\ \E fopen_ok \in BOOLEAN :
          IF fopen_ok
          THEN /\ heap' = Acquire(heap, "input_file")
               /\ pc' = "open_output"
               /\ status' = status
          ELSE /\ heap' = fx25_cleanup(heap, encoder)
               /\ Return(1)
    /\ UNCHANGED <<src_addr, dest_addr, input_data, input_pos, encoder, payload_buffer,
                   bytes_read, ax25_buffer, ax25_len, fx25_buffer, fx25_len,
                   output_data, packet_count, reads, emit_log, unit_vars>>

\* lines 291-297
OpenOutput ==
    /\ pc = "open_output"
    /\ \E fopen_ok \in BOOLEAN :
          IF fopen_ok
          THEN /\ heap' = Acquire(heap, "output_file")
               /\ pc' = "read"
               /\ status' = status
          ELSE /\ heap' = fx25_cleanup(fclose(heap, "input_file"), encoder)
               /\ Return(1)
    /\ UNCHANGED <<src_addr, dest_addr, input_data, input_pos, encoder, payload_buffer,
                   bytes_read, ax25_buffer, ax25_len, fx25_buffer, fx25_len,
                   output_data, packet_count, reads, emit_log, unit_vars>>

\* line 308: the loop condition
Read ==
    /\ pc = "read"
    /\ \E got \in {fread(input_data, input_pos, MAX_PAYLOAD)} :
           /\ payload_buffer' = Overwrite(payload_buffer, got)
           /\ bytes_read' = Len(got)
           /\ input_pos' = input_pos + Len(got)
           /\ reads' = Append(reads, Len(got))
           /\ pc' = IF Len(got) > 0 THEN "frame" ELSE "cleanup"
    /\ UNCHANGED <<src_addr, dest_addr, input_data, encoder, heap, ax25_buffer,
                   ax25_len, fx25_buffer, fx25_len, output_data, packet_count,
                   status, emit_log, unit_vars>>

\* lines 311-315
Frame ==
    /\ pc = "frame"
    /\ \E r \in {ax25_generate_ui_frame(ax25_buffer, dest_addr, src_addr,
                                        payload_buffer, bytes_read)} :
           /\ ax25_buffer' = r.frame_buffer
           /\ ax25_len' = r.ret
           /\ pc' = IF r.ret = 0 THEN "read" ELSE "encode"
    /\ UNCHANGED <<src_addr, dest_addr, input_data, input_pos, encoder, heap,
                   payload_buffer, bytes_read, fx25_buffer, fx25_len, output_data,
                   packet_count, status, reads, emit_log, unit_vars>>

\* lines 318-322
Encode ==
    /\ pc = "encode"
    /\ \E parity \in RsParities :
          \E r \in {fx25_encode_frame(encoder, ax25_buffer, ax25_len, fx25_buffer, parity)} :
              /\ fx25_buffer' = r.fx25_frame_out
              /\ fx25_len' = r.ret
              /\ pc' = IF r.ret = 0 THEN "read" ELSE "emit"
    /\ UNCHANGED <<src_addr, dest_addr, input_data, input_pos, encoder, heap,
                   payload_buffer, bytes_read, ax25_buffer, ax25_len, output_data,
                   packet_count, status, reads, emit_log, unit_vars>>

\* mutant: the frame is written, the counter is not incremented
Emit_without_count ==
    /\ pc = "emit"
    /\ \E written \in {write_kiss_frame(output_data, fx25_buffer, fx25_len)} :
           /\ output_data' = written
           /\ emit_log' = Append(emit_log,
                                 [payload |-> Take(payload_buffer, bytes_read),
                                  kiss |-> SubSeq(written, Len(output_data) + 1, Len(written))])
    /\ pc' = "read"
    /\ UNCHANGED <<src_addr, dest_addr, input_data, input_pos, encoder, heap,
                   payload_buffer, bytes_read, ax25_buffer, ax25_len, fx25_buffer,
                   fx25_len, packet_count, status, reads, unit_vars>>

\* lines 325-327
Emit ==
    /\ pc = "emit"
    /\ \E written \in {write_kiss_frame(output_data, fx25_buffer, fx25_len)} :
           /\ output_data' = written
           /\ emit_log' = Append(emit_log,
                                 [payload |-> Take(payload_buffer, bytes_read),
                                  kiss |-> SubSeq(written, Len(output_data) + 1, Len(written))])
    /\ packet_count' = packet_count + 1
    /\ pc' = "read"
    /\ UNCHANGED <<src_addr, dest_addr, input_data, input_pos, encoder, heap,
                   payload_buffer, bytes_read, ax25_buffer, ax25_len, fx25_buffer,
                   fx25_len, status, reads, unit_vars>>

\* lines 333-340
Cleanup ==
    /\ pc = "cleanup"
    /\ heap' = fx25_cleanup(fclose(fclose(heap, "input_file"), "output_file"), encoder)
    /\ Return(0)
    /\ UNCHANGED <<src_addr, dest_addr, input_data, input_pos, encoder, payload_buffer,
                   bytes_read, ax25_buffer, ax25_len, fx25_buffer, fx25_len,
                   output_data, packet_count, reads, emit_log, unit_vars>>

Next ==
    \/ ParseArgs
    \/ InitEncoder
    \/ OpenInput
    \/ OpenOutput
    \/ Read
    \/ Frame
    \/ Encode
    \/ Emit
    \/ Cleanup

Spec == Init /\ [][Next]_vars

\* --------------------------------------------------------------------------
\* Unit calls: one call of one function, on arguments from bounded sets
\* --------------------------------------------------------------------------
UnitCalls == { <<>>, CQ, N0CALL, ABCDEFG }

\* "123456789"
CheckString == <<49, 50, 51, 52, 53, 54, 55, 56, 57>>

KissBytes == {KISS_FEND, KISS_FESC, KISS_TFEND, KISS_TFESC, KISS_CMD_DATA}

RECURSIVE SeqsUpTo(_, _)
\* the sequences over S of length at most n
SeqsUpTo(S, n) ==
    IF n = 0 THEN {<<>>}
    ELSE LET shorter == SeqsUpTo(S, n - 1)
         IN  shorter \cup {Append(q, b) : q \in shorter, b \in S}

\* frames handed to write_kiss_frame: every short one, and codeword-sized ones
KissFrames ==
    SeqsUpTo(KissBytes, MaxKissLen)
        \cup {Periodic(seed, 8 + FX25_N) : seed \in DataSeeds \cup {<<KISS_FESC, KISS_TFEND>>}}

UnitInit ==
    /\ pc = "unit"
    /\ NoRun
    /\ NoUnit

Uncalled == pc = "unit" /\ u_fn = "none"

CallEncodeAddress ==
    /\ Uncalled
    /\ \E call \in UnitCalls, ssid \in 0..255, last_addr \in {0, 1} :
          /\ u_fn' = "encode_address"
          /\ u_in' = [data |-> call, n |-> ssid, aux |-> <<last_addr>>]
          /\ u_ret' = 0
          /\ u_out' = encode_address(call, ssid, last_addr)
    /\ UNCHANGED main_vars

CallCalculateCrc ==
    /\ Uncalled
    /\ \E length \in 0..Len(CheckString), seed \in DataSeeds \cup {CheckString} :
          \E data \in {Periodic(seed, Len(CheckString))} :
              /\ u_fn' = "calculate_crc"
              /\ u_in' = [data |-> data, n |-> length, aux |-> <<>>]
              /\ u_ret' = calculate_crc(data, length)
              /\ u_out' = <<>>
    /\ UNCHANGED main_vars

\* into a fresh buffer, large enough as the 512 bytes main() provides are
CallGenerateUiFrame ==
    /\ Uncalled
    /\ \E sp \in StationPairs, seed \in DataSeeds,
          payload_len \in 0..(MAX_PAYLOAD + MaxOver) :
          \E payload \in {Periodic(seed, payload_len)} :
              \E r \in {ax25_generate_ui_frame(<<>>, sp[2], sp[1], payload, payload_len)} :
                  /\ u_fn' = "ax25_generate_ui_frame"
                  /\ u_in' = [data |-> payload, n |-> payload_len, aux |-> <<sp[2], sp[1]>>]
                  /\ u_ret' = r.ret
                  /\ u_out' = r.frame_buffer
    /\ UNCHANGED main_vars

CallEncodeFrame ==
    /\ Uncalled
    /\ \E seed \in DataSeeds, frame_len \in 0..(FX25_K + MaxOver), parity \in RsParities :
          \E frame \in {Periodic(seed, frame_len)} :
              \E r \in {fx25_encode_frame([null |-> FALSE, rs_handle |-> TRUE],
                                          frame, frame_len, <<>>, parity)} :
                  /\ u_fn' = "fx25_encode_frame"
                  /\ u_in' = [data |-> frame, n |-> frame_len, aux |-> parity]
                  /\ u_ret' = r.ret
                  /\ u_out' = r.fx25_frame_out
    /\ UNCHANGED main_vars

CallWriteKissFrame ==
    /\ Uncalled
    /\ \E frame \in KissFrames :
          /\ u_fn' = "write_kiss_frame"
          /\ u_in' = [data |-> frame, n |-> Len(frame), aux |-> <<>>]
          /\ u_ret' = 0
          /\ u_out' = write_kiss_frame(<<>>, frame, Len(frame))
    /\ UNCHANGED main_vars

UnitNext ==
    \/ CallEncodeAddress
    \/ CallCalculateCrc
    \/ CallGenerateUiFrame
    \/ CallEncodeFrame
    \/ CallWriteKissFrame

UnitSpec == UnitInit /\ [][UnitNext]_vars

\* a run of main() or a unit call
FullInit == Init \/ UnitInit

FullNext == Next \/ UnitNext

FullSpec == FullInit /\ [][FullNext]_vars

\* ==========================================================================
\* Properties
\* ==========================================================================

\* --------------------------------------------------------------------------
\* A KISS receiver, as the round-trip law describes it: strip the leading
\* 0xC0 0x00 and the trailing 0xC0, then map 0xDB 0xDC to 0xC0 and 0xDB 0xDD
\* to 0xDB.  Any other byte behind 0xDB, and a frame without its delimiters,
\* decodes to -1; pending is TRUE when the body ends inside an escape.
\* --------------------------------------------------------------------------
UnstuffByte(b, pending) ==
    IF pending
    THEN [out |-> <<IF b = 220 THEN 192 ELSE IF b = 221 THEN 219 ELSE -1>>,
          pending |-> FALSE]
    ELSE IF b = 219 THEN [out |-> <<>>, pending |-> TRUE]
    ELSE [out |-> <<b>>, pending |-> FALSE]

UnstuffCat(out, right) == [out |-> out \o right.out, pending |-> right.pending]

UnstuffJoin(un, mid, hi, left) == UnstuffCat(left.out, un[mid, hi, left.pending])

Unstuff(body) ==
    LET un[lo \in 0..Len(body), hi \in 0..Len(body), pending \in BOOLEAN] ==
            IF lo >= hi THEN [out |-> <<>>, pending |-> pending]
            ELSE IF hi - lo = 1 THEN UnstuffByte(body[lo + 1], pending)
            ELSE UnstuffJoin(un, lo + ((hi - lo) \div 2), hi,
                             un[lo, lo + ((hi - lo) \div 2), pending])
    IN  un[0, Len(body), FALSE]

KissDecode(bytes) ==
    IF Len(bytes) >= 3 /\ bytes[1] = 192 /\ bytes[2] = 0 /\ bytes[Len(bytes)] = 192
    THEN Unstuff(SubSeq(bytes, 3, Len(bytes) - 1))
    ELSE [out |-> <<-1>>, pending |-> TRUE]

Decoded(x) == [out |-> x, pending |-> FALSE]

\* how often byte b occurs in a sequence
Occurrences(b, bytes) == Cardinality({i \in 1..Len(bytes) : bytes[i] = b})

\* the j-th chunk of 150 bytes of the input
Chunk(j) == SubSeq(input_data, 150 * (j - 1) + 1, Min(150 * j, Len(input_data)))

\* the payload the j-th packet of the output carries: the bytes behind the
\* 8-byte tag and the 16 header bytes of the frame
Carried(j) ==
    SubSeq(KissDecode(emit_log[j].kiss).out, 8 + 16 + 1, 8 + 16 + Len(emit_log[j].payload))

\* --------------------------------------------------------------------------
\* C1: a run over an input of N bytes ends at the first read that returns
\* zero bytes and has then emitted exactly ceil(N/150) packets, one per
\* non-empty chunk, in input order, each chunk 150 bytes except a shorter
\* last one; 301 bytes give 3 packets of 150, 150 and 1 payload bytes.
\* --------------------------------------------------------------------------
C1_Chunking ==
    /\ \A j \in 1..(Len(reads) - 1) : reads[j] > 0
    /\ (reads # <<>> /\ reads[Len(reads)] = 0) => pc \in {"cleanup", "exit"}
    /\ (pc \in {"cleanup", "exit"} /\ reads # <<>>) => reads[Len(reads)] = 0
    /\ (pc = "exit" /\ status = 0) =>
          /\ packet_count = (Len(input_data) + 149) \div 150
          /\ Len(emit_log) = packet_count
          /\ Len(reads) = packet_count + 1
          /\ Occurrences(192, output_data) = 2 * packet_count
          /\ \A j \in 1..packet_count :
                /\ emit_log[j].payload = Chunk(j)
                /\ reads[j] = Len(Chunk(j))
                /\ Carried(j) = Chunk(j)
                /\ Len(Chunk(j)) = IF j < packet_count THEN 150
                                   ELSE Len(input_data) - 150 * (packet_count - 1)
          /\ Len(input_data) = 301 => reads = <<150, 150, 1, 0>>

C1_Witness ==
    /\ pc = "exit"
    /\ status = 0
    /\ Len(input_data) = 301
    /\ packet_count = 3
    /\ Len(emit_log[3].payload) = 1

\* --------------------------------------------------------------------------
\* C2 as amended: calculate_crc over the nine ASCII bytes "123456789"
\* returns 0xD64E, the complement of the check value 0x29B1.
\* --------------------------------------------------------------------------
CalledOnCheckString ==
    /\ u_fn = "calculate_crc"
    /\ u_in.n = 9
    /\ Take(u_in.data, 9) = <<49, 50, 51, 52, 53, 54, 55, 56, 57>>

C2_CheckValueComplement == CalledOnCheckString => u_ret = 54862

C2_Witness == CalledOnCheckString /\ u_ret = 54862

\* C2 as claimed: calculate_crc over "123456789" returns 0x29B1.
C2_Claimed == CalledOnCheckString => u_ret = 10673

\* --------------------------------------------------------------------------
\* C3 as claimed: ax25_generate_ui_frame returns the error value 0 and
\* produces no frame whenever the payload is longer than 150 bytes.
\* --------------------------------------------------------------------------
C3_Claimed ==
    (u_fn = "ax25_generate_ui_frame" /\ u_in.n > 150) => (u_ret = 0 /\ u_out = <<>>)

\* --------------------------------------------------------------------------
\* C4: for a frame of L <= 223 bytes fx25_encode_frame returns 263 bytes:
\* the tag CC 8F 8A E4 85 E2 98 01, the L bytes of the frame, zeros up to
\* byte 230, and the 32 parity bytes in bytes 231..262.
\* --------------------------------------------------------------------------
C4_CodewordLayout ==
    (u_fn = "fx25_encode_frame" /\ u_in.n <= 223) =>
        /\ u_ret = 263
        /\ Len(u_out) = 263
        /\ SubSeq(u_out, 1, 8) = <<204, 143, 138, 228, 133, 226, 152, 1>>
        /\ \A i \in 1..u_in.n : u_out[8 + i] = u_in.data[i]
        /\ \A i \in (u_in.n + 1)..223 : u_out[8 + i] = 0
        /\ SubSeq(u_out, 232, 263) = u_in.aux

C4_Witness ==
    /\ u_fn = "fx25_encode_frame"
    /\ u_in.n = 166
    /\ u_in.data[1] = 192
    /\ u_ret = 263
    /\ u_out[8 + 167] = 0
    /\ u_out[232] = 192

\* --------------------------------------------------------------------------
\* C5: un-stuffing the bytes write_kiss_frame wrote for x yields x.
\* --------------------------------------------------------------------------
C5_RoundTrip ==
    u_fn = "write_kiss_frame" => KissDecode(u_out) = Decoded(Take(u_in.data, u_in.n))

C5_Witness ==
    /\ u_fn = "write_kiss_frame"
    /\ u_in.data = <<219, 192, 220, 221>>
    /\ Len(u_out) = 9
    /\ KissDecode(u_out).out = u_in.data

\* --------------------------------------------------------------------------
\* C6 as amended: for a payload of 0..150 bytes ax25_generate_ui_frame
\* returns payload_len + 18 (14 address bytes, control, PID, 2 FCS bytes) and
\* the frame is dest(7) src(7) 0x03 0xF0 payload fcs_lo fcs_hi, the FCS being
\* the CRC of the bytes before it, the last-address bit set in the source
\* address only; the frame fits the 223 data bytes of the Reed-Solomon block.
\* --------------------------------------------------------------------------
FramedPayload == u_fn = "ax25_generate_ui_frame" /\ u_in.n <= 150

C6_FrameLayout ==
    FramedPayload =>
        /\ u_ret = u_in.n + 18
        /\ Len(u_out) = u_in.n + 18
        /\ u_ret <= 223
        /\ SubSeq(u_out, 1, 7) = encode_address(u_in.aux[1].call, u_in.aux[1].ssid, 0)
        /\ SubSeq(u_out, 8, 14) = encode_address(u_in.aux[2].call, u_in.aux[2].ssid, 1)
        /\ u_out[7] % 2 = 0
        /\ u_out[14] % 2 = 1
        /\ u_out[15] = 3
        /\ u_out[16] = 240
        /\ SubSeq(u_out, 17, 16 + u_in.n) = Take(u_in.data, u_in.n)
        /\ u_out[u_in.n + 17] + 256 * u_out[u_in.n + 18]
              = calculate_crc(Take(u_out, u_in.n + 16), u_in.n + 16)

C6_Witness ==
    /\ FramedPayload
    /\ u_in.n = 150
    /\ u_ret = 168
    /\ u_out[17] = 192
    /\ u_out[167] # u_out[168]

\* C6 as claimed: the frame returned for a payload of 0..150 bytes has
\* length payload_len + 16.
C6_Claimed == FramedPayload => (u_ret = u_in.n + 16 /\ Len(u_out) = u_in.n + 16)

\* --------------------------------------------------------------------------
\* C7: the bytes write_kiss_frame writes start with 0xC0 0x00 and end with
\* 0xC0, hold no other 0xC0, and every 0xDB in the body is directly followed
\* by 0xDC or 0xDD.
\* --------------------------------------------------------------------------
C7_Delimiters ==
    u_fn = "write_kiss_frame" =>
        /\ Len(u_out) >= 3
        /\ u_out[1] = 192
        /\ u_out[2] = 0
        /\ u_out[Len(u_out)] = 192
        /\ \A i \in 2..(Len(u_out) - 1) : u_out[i] # 192
        /\ \A i \in 3..(Len(u_out) - 1) :
              u_out[i] = 219 => (i + 1 <= Len(u_out) - 1 /\ u_out[i + 1] \in {220, 221})

C7_Witness ==
    /\ u_fn = "write_kiss_frame"
    /\ u_in.data = <<192, 219, 192>>
    /\ u_out = <<192, 0, 219, 220, 219, 221, 219, 220, 192>>

\* --------------------------------------------------------------------------
\* C8: the packet counter always equals the number of KISS frames written;
\* a chunk whose Frame or Encode stage returned 0 goes back to Read with
\* nothing written, the counter unchanged and the chunk not read again; and
\* fx25_encode_frame returns 0, leaving the output buffer alone, for a frame
\* longer than 223 bytes.
\* --------------------------------------------------------------------------
RECURSIVE KissConcat(_, _)
\* the bytes of the first n logged KISS frames
KissConcat(log, n) == IF n = 0 THEN <<>> ELSE KissConcat(log, n - 1) \o log[n].kiss

CounterIsFramesWritten ==
    /\ packet_count = Len(emit_log)
    /\ output_data = KissConcat(emit_log, Len(emit_log))
    /\ Occurrences(192, output_data) = 2 * packet_count

EncodeRejectsOversize ==
    (u_fn = "fx25_encode_frame" /\ u_in.n > 223) => (u_ret = 0 /\ u_out = <<>>)

FailedChunkSkipped ==
    /\ (pc = "frame" /\ ax25_len' = 0) => pc' = "read"
    /\ (pc = "encode" /\ fx25_len' = 0) => pc' = "read"
    /\ (pc \in {"frame", "encode"} /\ pc' = "read") =>
          /\ output_data' = output_data
          /\ packet_count' = packet_count
          /\ input_pos' = input_pos
    /\ packet_count' # packet_count =>
          (pc = "emit" /\ pc' = "read" /\ packet_count' = packet_count + 1)

FatalFailure == pc = "exit" /\ heap.acq["output_file"] = 0

C9_ResourceDiscipline ==
    /\ \A r \in Resources : heap.rel[r] <= heap.acq[r] /\ heap.acq[r] <= 1
    /\ pc = "exit" => \A r \in Resources : heap.rel[r] = heap.acq[r]
    /\ pc # "exit" => status = -1
    /\ FatalFailure => (status # 0 /\ reads = <<>> /\ output_data = <<>> /\ packet_count = 0)
    /\ (pc = "exit" /\ ~FatalFailure) => status = 0
    /\ reads # <<>> => \A r \in Resources : heap.acq[r] = 1
    /\ pc \in {"read", "frame", "encode", "emit"} =>
          \A r \in Resources : heap.acq[r] = 1 /\ heap.rel[r] = 0

C9_Witness ==
    /\ pc = "exit"
    /\ status = 1
    /\ heap.acq["input_file"] = 1
    /\ heap.rel["input_file"] = 1
    /\ heap.rel["rs_handle"] = 1
    /\ heap.rel["encoder"] = 1
    /\ heap.acq["output_file"] = 0

\* --------------------------------------------------------------------------
\* C10 as claimed: for every SSID s in 0..255 the 7th byte encode_address
\* produces is ((s mod 16) << 1) | 0x60 | last_bit, so its bit 7 is 0.
\* --------------------------------------------------------------------------
C10_Claimed ==
    u_fn = "encode_address" =>
        /\ u_out[7] = ((u_in.n % 16) * 2) + 96 + u_in.aux[1]
        /\ u_out[7] < 128

====
